---- MODULE Spec2Model ----
(***************************************************************************)
(* A model of the International Institute of Languages API (src/main.py,   *)
(* src/schemas.py): the document store shared by the replicas of the       *)
(* service, the startup seeding routine seed_if_empty, which runs one      *)
(* store call at a time, and the request handlers, each of which is one    *)
(* step.  The gateway functions create_document and get_documents live in  *)
(* database.py, which is imported by main.py; they are modelled from       *)
(* section 4.2 of the specification.                                       *)
(***************************************************************************)
EXTENDS Integers, Sequences, FiniteSets, TLC

\* ---------------------------------------------------------------- bounds

\* Enquiry documents the store accepts before the model stops submitting.
MaxEnquiries == 2
\* Largest explicit ?limit= value tried besides the default.
MaxLimit == 2

\* The default of list_testimonials' limit parameter.
DefaultLimit == 10

\* The replicas of the service that share the store: the two of the
\* concurrent cold start.
Procs == {1, 2}

\* ------------------------------------------------------------- variables

VARIABLES
    db,       \* TRUE when database.db is a live handle, FALSE when it is None
    store,    \* collection name -> sequence of documents, in insertion order
    pc,       \* per replica: where it is in on_startup / seed_if_empty
    idx,      \* per replica: position of the running insert loop
    seeded,   \* per replica: collections this seed run saw empty
    from,     \* per replica: the seeded collections when this run started
    alone,    \* per replica: no other replica ran a seed step during this run
    second,   \* per replica: this run started right after a completed run
    justSeeded, \* a seed run returned and nothing ran since
    resp      \* what the latest step returned

vars == <<db, store, pc, idx, seeded, from, alone, second, justSeeded, resp>>

\* ------------------------------------------------------------ documents

None == "None"

Collections == {"course", "testimonial", "enquiry"}

\* The hardcoded sample courses of seed_if_empty (price in whole units).
SampleCourses ==
    << [slug |-> "ielts-coaching", title |-> "IELTS Coaching",
        category |-> "Exam Prep", icon |-> "GraduationCap",
        duration_weeks |-> 8, price |-> 299],
       [slug |-> "pte-preparation", title |-> "PTE Preparation",
        category |-> "Exam Prep", icon |-> "BookOpen",
        duration_weeks |-> 6, price |-> 249],
       [slug |-> "foreign-languages", title |-> "Foreign Languages",
        category |-> "Language", icon |-> "Globe2",
        duration_weeks |-> 12, price |-> 399] >>

\* The hardcoded sample testimonials of seed_if_empty.
SampleTestimonials ==
    << [name |-> "Aarav S.", course_slug |-> "ielts-coaching",
        score_or_result |-> "IELTS 8.0", avatar_url |-> None],
       [name |-> "Meera T.", course_slug |-> "pte-preparation",
        score_or_result |-> "PTE 79+", avatar_url |-> None] >>

Min(a, b) == IF a <= b THEN a ELSE b

IsPrefix(s, t) == Len(s) <= Len(t) /\ SubSeq(t, 1, Len(s)) = s

\* The record without its store identifier.
WithoutId(d) == [f \in (DOMAIN d) \ {"_id"} |-> d[f]]

\* The record with the store identifier added.
WithId(rec, id) ==
    [f \in (DOMAIN rec) \cup {"_id"} |-> IF f = "_id" THEN id ELSE rec[f]]

\* str(ObjectId): the identifier as handed to clients.
Str(id) == ToString(id)

\* -------------------------------------------------------------- schemas

\* Sample e-mail strings, as sequences of characters.
EmailSamples ==
    { <<"a", "@", "b", ".", "c">>, <<"b", "@", "a", ".", "c">>,
      <<"a", "b", "c">>, <<"a", "@", "b">> }

\* Raw request bodies: a name, an e-mail, both or neither.
RawPayloads ==
    { [name |-> "Asha", email |-> e] : e \in EmailSamples }
        \cup { [email |-> e] : e \in EmailSamples }
        \cup { [name |-> "Asha"] }
        \cup { [f \in {} |-> None] }

NoPayload == [f \in {} |-> None]

\* EmailStr: one "@", a local part before it, and after it a domain that
\* holds a period which is neither its first nor its last character.
IsEmail(s) ==
    LET ats == {i \in 1..Len(s) : s[i] = "@"}
    IN  /\ Cardinality(ats) = 1
        /\ LET a == CHOOSE i \in ats : TRUE
           IN  /\ a > 1
               /\ a + 3 <= Len(s)
               /\ s[a + 1] # "."
               /\ s[Len(s)] # "."
               /\ \E j \in (a + 2)..(Len(s) - 1) : s[j] = "."

EnquiryValidNoEmailCheck(raw) ==
    /\ "name" \in DOMAIN raw
    /\ "email" \in DOMAIN raw

\* Enquiry: name and email are required, email is an EmailStr.
EnquiryValid(raw) ==
    /\ "name" \in DOMAIN raw
    /\ "email" \in DOMAIN raw
    /\ IsEmail(raw.email)

\* The validated Enquiry: absent optional fields become None.
Enquiry(raw) ==
    [name |-> raw.name, email |-> raw.email,
     phone |-> IF "phone" \in DOMAIN raw THEN raw.phone ELSE None,
     course_interest |->
        IF "course_interest" \in DOMAIN raw THEN raw.course_interest ELSE None,
     message |-> IF "message" \in DOMAIN raw THEN raw.message ELSE None]

\* ------------------------------------------------------ store gateway

\* The identifier the store assigns to the next document of a collection.
NewId(st, c) == Len(st[c]) + 1

\* create(collectionName, record): StoreUnavailable without a live handle,
\* WriteFailure on a store-level error, otherwise the record is inserted
\* and its new identifier returned as a string.
CreateDocument(st, c, rec, fault) ==
    IF ~db THEN [ok |-> FALSE, store |-> st, id |-> ""]
    ELSE IF fault THEN [ok |-> FALSE, store |-> st, id |-> ""]
    ELSE [ok |-> TRUE,
          store |-> [st EXCEPT ![c] = Append(@, WithId(rec, NewId(st, c)))],
          id |-> Str(NewId(st, c))]

\* query(collectionName, {}, limit): StoreUnavailable without a live handle;
\* otherwise the documents in natural order, all of them without a limit and
\* the first `limit` of them with a limit of at least 1.  The specification
\* does not say what a limit below 1 selects: any prefix may come back.
GetDocuments(st, c, hasLimit, limit) ==
    IF ~db THEN { [ok |-> FALSE, docs |-> <<>>] }
    ELSE IF ~hasLimit THEN { [ok |-> TRUE, docs |-> st[c]] }
    ELSE IF limit >= 1
         THEN { [ok |-> TRUE, docs |-> SubSeq(st[c], 1, Min(limit, Len(st[c])))] }
    ELSE { [ok |-> TRUE, docs |-> SubSeq(st[c], 1, k)] : k \in 0..Len(st[c]) }

\* A variant whose emptiness check always sees an empty collection.
CountAlwaysZero(st, c) == 0

\* db[c].count_documents({})
CountDocuments(st, c) == Len(st[c])

\* db["course"].find_one({"slug": slug}): the first match, as a sequence of
\* at most one document.
FindOne(st, c, slug) ==
    LET hits == {i \in 1..Len(st[c]) : st[c][i].slug = slug}
    IN  IF hits = {} THEN <<>>
        ELSE <<st[c][CHOOSE i \in hits : \A j \in hits : i <= j]>>

\* db.list_collection_names(): the collections that hold a document.
ListCollectionNames(st) ==
    SelectSeq(<<"course", "testimonial", "enquiry">>, LAMBDA c : st[c] # <<>>)

\* doc["_id"] = str(doc["_id"])
Normalize(d) == [d EXCEPT !["_id"] = Str(d["_id"])]

NormalizeAll(ds) == [i \in 1..Len(ds) |-> Normalize(ds[i])]

\* ------------------------------------------------------------ responses

\* The outcome of a step; each operation fills in the fields it returns.
NoResp(op) ==
    [op |-> op, proc |-> 0, status |-> "", slug |-> "", limit |-> 0,
     payload |-> NoPayload, fault |-> FALSE, docs |-> <<>>, id |-> "",
     database |-> "", database_url |-> "", database_name |-> "",
     collections |-> <<>>, collections_error |-> "", message |-> ""]

\* ---------------------------------------------------------- bookkeeping

\* Where a replica is: "off" (not deployed), "start" (process started,
\* on_startup not yet run), inside seed_if_empty, "serving", or "down".
InSeed == {"course_insert", "testimonial_count", "testimonial_insert"}

NoFrom == [course |-> <<>>, testimonial |-> <<>>]

\* A replica that is not inside a seed run.
Quiet(q) == pc[q] \notin InSeed

\* The bookkeeping of seed runs after a step of replica p (0: a request):
\* p's own entries are given, a replica outside a run carries none, and a
\* seed step of p interrupts the runs of the others.
StepFrom(p, f) ==
    [q \in Procs |-> IF q = p THEN f ELSE IF Quiet(q) THEN NoFrom ELSE from[q]]

StepAlone(p, a, seedStep) ==
    [q \in Procs |-> IF q = p THEN a
                     ELSE IF Quiet(q) THEN TRUE ELSE alone[q] /\ ~seedStep]

StepSecond(p, s) ==
    [q \in Procs |-> IF q = p THEN s ELSE IF Quiet(q) THEN FALSE ELSE second[q]]

\* A request handler ran: no seed run is touched.
RequestStep ==
    /\ from' = StepFrom(0, NoFrom)
    /\ alone' = StepAlone(0, TRUE, FALSE)
    /\ second' = StepSecond(0, FALSE)
    /\ justSeeded' = FALSE
    /\ UNCHANGED <<db, pc, idx, seeded>>

\* Requests are served once a replica's startup has finished.
Serving == \E p \in Procs : pc[p] = "serving"

\* ------------------------------------------------------------------ Init

EmptyStore == [c \in Collections |-> <<>>]

\* The store two replicas leave behind when both seed it (see RaceReached).
RacedStore ==
    [c \in Collections |->
        IF c = "course"
        THEN [i \in 1..(2 * Len(SampleCourses)) |->
                WithId(SampleCourses[(i + 1) \div 2], i)]
        ELSE IF c = "testimonial"
        THEN [i \in 1..(2 * Len(SampleTestimonials)) |->
                WithId(SampleTestimonials[(i + 1) \div 2], i)]
        ELSE <<>>]

\* One replica is started, with or without a store handle, against a store
\* that is empty or was seeded by two racing replicas earlier.
Init ==
    /\ db \in BOOLEAN
    /\ store \in {EmptyStore, RacedStore}
    /\ pc = [p \in Procs |-> IF p = 1 THEN "start" ELSE "off"]
    /\ idx = [p \in Procs |-> 0]
    /\ seeded = [p \in Procs |-> {}]
    /\ from = [p \in Procs |-> NoFrom]
    /\ alone = [p \in Procs |-> TRUE]
    /\ second = [p \in Procs |-> FALSE]
    /\ justSeeded = FALSE
    /\ resp = NoResp("init")

\* ------------------------------------------------------- seed_if_empty

SeedResp(p, status, fault) ==
    [NoResp("seed_if_empty") EXCEPT !.proc = p, !.status = status,
                                    !.fault = fault]

\* on_startup -> seed_if_empty, up to the first store call: return at once
\* without a store handle, otherwise count the courses and enter the insert
\* loop when there are none.
SeedStart(p) ==
    /\ pc[p] = "start"
    /\ from' = StepFrom(p, [course |-> store["course"],
                            testimonial |-> store["testimonial"]])
    /\ alone' = StepAlone(p, TRUE, db)
    /\ second' = StepSecond(p, justSeeded)
    /\ IF ~db
       THEN /\ pc' = [pc EXCEPT ![p] = "serving"]
            /\ idx' = [idx EXCEPT ![p] = 0]
            /\ seeded' = [seeded EXCEPT ![p] = {}]
            /\ justSeeded' = TRUE
            /\ resp' = SeedResp(p, "returned", FALSE)
       ELSE /\ justSeeded' = FALSE
            /\ resp' = SeedResp(p, "running", FALSE)
            /\ IF CountDocuments(store, "course") = 0
               THEN /\ pc' = [pc EXCEPT ![p] = "course_insert"]
                    /\ idx' = [idx EXCEPT ![p] = 1]
                    /\ seeded' = [seeded EXCEPT ![p] = {"course"}]
               ELSE /\ pc' = [pc EXCEPT ![p] = "testimonial_count"]
                    /\ idx' = [idx EXCEPT ![p] = 0]
                    /\ seeded' = [seeded EXCEPT ![p] = {}]
    /\ UNCHANGED <<db, store>>

\* A seed step of p inside its run.
SeedStep(p) ==
    /\ from' = StepFrom(p, from[p])
    /\ alone' = StepAlone(p, alone[p], TRUE)
    /\ second' = StepSecond(p, second[p])
    /\ UNCHANGED db

\* create_document raised: the exception leaves seed_if_empty and on_startup,
\* and the replica does not come up.
SeedRaised(p, fault) ==
    /\ pc' = [pc EXCEPT ![p] = "down"]
    /\ idx' = [idx EXCEPT ![p] = 0]
    /\ seeded' = [seeded EXCEPT ![p] = {}]
    /\ justSeeded' = FALSE
    /\ resp' = SeedResp(p, "raised", fault)

\* A variant that skips a sample whose slug is already stored.
SeedInsertCourseUpsert(p) ==
    /\ pc[p] = "course_insert"
    /\ SeedStep(p)
    /\ store' = IF FindOne(store, "course", SampleCourses[idx[p]].slug) # <<>>
                THEN store
                ELSE CreateDocument(store, "course",
                                    SampleCourses[idx[p]], FALSE).store
    /\ IF idx[p] < Len(SampleCourses)
       THEN /\ pc' = pc
            /\ idx' = [idx EXCEPT ![p] = @ + 1]
       ELSE /\ pc' = [pc EXCEPT ![p] = "testimonial_count"]
            /\ idx' = [idx EXCEPT ![p] = 0]
    /\ UNCHANGED <<seeded, justSeeded>>
    /\ resp' = SeedResp(p, "running", FALSE)

\* for c in sample_courses: create_document("course", c) -- one turn.
SeedInsertCourse(p) ==
    /\ pc[p] = "course_insert"
    /\ SeedStep(p)
    /\ \E fault \in BOOLEAN :
        LET out == CreateDocument(store, "course", SampleCourses[idx[p]], fault)
        IN  /\ store' = out.store
            /\ IF ~out.ok
               THEN SeedRaised(p, fault)
               ELSE /\ IF idx[p] < Len(SampleCourses)
                       THEN /\ pc' = pc
                            /\ idx' = [idx EXCEPT ![p] = @ + 1]
                       ELSE /\ pc' = [pc EXCEPT ![p] = "testimonial_count"]
                            /\ idx' = [idx EXCEPT ![p] = 0]
                    /\ UNCHANGED <<seeded, justSeeded>>
                    /\ resp' = SeedResp(p, "running", fault)

\* A variant that counts the courses again instead of the testimonials.
SeedCountTestimonialsWrongCollection(p) ==
    /\ pc[p] = "testimonial_count"
    /\ SeedStep(p)
    /\ IF CountDocuments(store, "course") = 0
       THEN /\ pc' = [pc EXCEPT ![p] = "testimonial_insert"]
            /\ idx' = [idx EXCEPT ![p] = 1]
            /\ seeded' = [seeded EXCEPT ![p] = @ \cup {"testimonial"}]
            /\ justSeeded' = FALSE
            /\ resp' = SeedResp(p, "running", FALSE)
       ELSE /\ pc' = [pc EXCEPT ![p] = "serving"]
            /\ idx' = [idx EXCEPT ![p] = 0]
            /\ seeded' = seeded
            /\ justSeeded' = TRUE
            /\ resp' = SeedResp(p, "returned", FALSE)
    /\ UNCHANGED store

\* if db["testimonial"].count_documents({}) == 0: enter the second loop,
\* otherwise seed_if_empty returns.
SeedCountTestimonials(p) ==
    /\ pc[p] = "testimonial_count"
    /\ SeedStep(p)
    /\ IF CountDocuments(store, "testimonial") = 0
       THEN /\ pc' = [pc EXCEPT ![p] = "testimonial_insert"]
            /\ idx' = [idx EXCEPT ![p] = 1]
            /\ seeded' = [seeded EXCEPT ![p] = @ \cup {"testimonial"}]
            /\ justSeeded' = FALSE
            /\ resp' = SeedResp(p, "running", FALSE)
       ELSE /\ pc' = [pc EXCEPT ![p] = "serving"]
            /\ idx' = [idx EXCEPT ![p] = 0]
            /\ seeded' = seeded
            /\ justSeeded' = TRUE
            /\ resp' = SeedResp(p, "returned", FALSE)
    /\ UNCHANGED store

\* for t in testimonials: create_document("testimonial", t) -- one turn;
\* after the last one seed_if_empty returns.
SeedInsertTestimonial(p) ==
    /\ pc[p] = "testimonial_insert"
    /\ SeedStep(p)
    /\ \E fault \in BOOLEAN :
        LET out == CreateDocument(store, "testimonial",
                                  SampleTestimonials[idx[p]], fault)
        IN  /\ store' = out.store
            /\ IF ~out.ok
               THEN SeedRaised(p, fault)
               ELSE /\ seeded' = seeded
                    /\ IF idx[p] < Len(SampleTestimonials)
                       THEN /\ pc' = pc
                            /\ idx' = [idx EXCEPT ![p] = @ + 1]
                            /\ justSeeded' = FALSE
                            /\ resp' = SeedResp(p, "running", fault)
                       ELSE /\ pc' = [pc EXCEPT ![p] = "serving"]
                            /\ idx' = [idx EXCEPT ![p] = 0]
                            /\ justSeeded' = TRUE
                            /\ resp' = SeedResp(p, "returned", fault)

\* The replica's process is stopped, inside seed_if_empty or while serving.
Stop(p) ==
    /\ pc[p] \in InSeed \cup {"serving"}
    /\ pc' = [pc EXCEPT ![p] = "down"]
    /\ idx' = [idx EXCEPT ![p] = 0]
    /\ seeded' = [seeded EXCEPT ![p] = {}]
    /\ from' = StepFrom(p, NoFrom)
    /\ alone' = StepAlone(p, TRUE, FALSE)
    /\ second' = StepSecond(p, FALSE)
    /\ resp' = [NoResp("stop") EXCEPT !.proc = p]
    /\ UNCHANGED <<db, store, justSeeded>>

\* The replica is started again: on_startup will run seed_if_empty.
Restart(p) ==
    /\ pc[p] = "down"
    /\ pc' = [pc EXCEPT ![p] = "start"]
    /\ from' = StepFrom(p, NoFrom)
    /\ alone' = StepAlone(p, TRUE, FALSE)
    /\ second' = StepSecond(p, FALSE)
    /\ resp' = [NoResp("restart") EXCEPT !.proc = p]
    /\ UNCHANGED <<db, store, idx, seeded, justSeeded>>

\* ------------------------------------------------------ request handlers

\* Slugs asked for: two seeded ones and one no course has.
Slugs == {"ielts-coaching", "pte-preparation", "nonexistent-course"}

\* Values of ?limit= tried: below 1, small ones, and the default.
Limits == (-1..MaxLimit) \cup {DefaultLimit}

\* GET /
Root ==
    /\ Serving
    /\ resp' = [NoResp("root") EXCEPT
                    !.status = "200",
                    !.message = "International Institute of Languages API running"]
    /\ RequestStep
    /\ UNCHANGED store

\* A variant whose inner try is missing: the listing fault leaves the handler.
TestDatabasePropagates ==
    /\ Serving
    /\ \E raises \in BOOLEAN, env \in BOOLEAN :
        resp' = IF ~db
                THEN [NoResp("test_database") EXCEPT
                        !.status = "200", !.database = "Not Available",
                        !.database_url = "Not Set", !.database_name = "Not Set"]
                ELSE IF raises
                THEN [NoResp("test_database") EXCEPT
                        !.status = "500", !.fault = TRUE]
                ELSE [NoResp("test_database") EXCEPT
                        !.status = "200", !.database = "Connected",
                        !.database_url = IF env THEN "Set" ELSE "Not Set",
                        !.database_name = "db.name",
                        !.collections = ListCollectionNames(store)]
    /\ RequestStep
    /\ UNCHANGED store

\* GET /test: the response starts as "not available" and is filled in when
\* the handle exists; a fault of list_collection_names becomes a field.
TestDatabase ==
    /\ Serving
    /\ \E raises \in BOOLEAN, env \in BOOLEAN :
        resp' = IF ~db
                THEN [NoResp("test_database") EXCEPT
                        !.status = "200", !.database = "Not Available",
                        !.database_url = "Not Set", !.database_name = "Not Set"]
                ELSE [NoResp("test_database") EXCEPT
                        !.status = "200", !.database = "Connected",
                        !.database_url = IF env THEN "Set" ELSE "Not Set",
                        !.database_name = "db.name",
                        !.fault = raises,
                        !.collections =
                            IF raises THEN <<>> ELSE ListCollectionNames(store),
                        !.collections_error =
                            IF raises THEN "str(e)" ELSE ""]
    /\ RequestStep
    /\ UNCHANGED store

\* What list_courses may return on a store.
ListCoursesResp(st) ==
    { IF ~out.ok
      THEN [NoResp("list_courses") EXCEPT !.status = "500"]
      ELSE [NoResp("list_courses") EXCEPT
                !.status = "200", !.docs = NormalizeAll(out.docs)] :
      out \in GetDocuments(st, "course", FALSE, 0) }

\* GET /api/courses
ListCourses ==
    /\ Serving
    /\ resp' \in ListCoursesResp(store)
    /\ RequestStep
    /\ UNCHANGED store

\* A variant whose lookup forgets the slug filter: find_one({}).
GetCourseNoFilter(slug) ==
    /\ Serving
    /\ resp' = IF ~db
               THEN [NoResp("get_course") EXCEPT !.status = "500", !.slug = slug]
               ELSE IF store["course"] = <<>>
               THEN [NoResp("get_course") EXCEPT !.status = "404", !.slug = slug]
               ELSE [NoResp("get_course") EXCEPT
                        !.status = "200", !.slug = slug,
                        !.docs = <<Normalize(store["course"][1])>>]
    /\ RequestStep
    /\ UNCHANGED store

\* GET /api/courses/{slug}
GetCourse(slug) ==
    /\ Serving
    /\ resp' = IF ~db
               THEN [NoResp("get_course") EXCEPT !.status = "500", !.slug = slug]
               ELSE LET doc == FindOne(store, "course", slug)
                    IN  IF doc = <<>>
                        THEN [NoResp("get_course") EXCEPT
                                !.status = "404", !.slug = slug]
                        ELSE [NoResp("get_course") EXCEPT
                                !.status = "200", !.slug = slug,
                                !.docs = NormalizeAll(doc)]
    /\ RequestStep
    /\ UNCHANGED store

\* A variant that drops the limit argument: get_documents("testimonial").
ListTestimonialsNoLimit(limit) ==
    /\ Serving
    /\ \E out \in GetDocuments(store, "testimonial", FALSE, 0) :
        resp' = IF ~out.ok
                THEN [NoResp("list_testimonials") EXCEPT
                        !.status = "500", !.limit = limit]
                ELSE [NoResp("list_testimonials") EXCEPT
                        !.status = "200", !.limit = limit,
                        !.docs = NormalizeAll(out.docs)]
    /\ RequestStep
    /\ UNCHANGED store

\* GET /api/testimonials?limit=N
ListTestimonials(limit) ==
    /\ Serving
    /\ \E out \in GetDocuments(store, "testimonial", TRUE, limit) :
        resp' = IF ~out.ok
                THEN [NoResp("list_testimonials") EXCEPT
                        !.status = "500", !.limit = limit]
                ELSE [NoResp("list_testimonials") EXCEPT
                        !.status = "200", !.limit = limit,
                        !.docs = NormalizeAll(out.docs)]
    /\ RequestStep
    /\ UNCHANGED store

\* A variant that retries the insert after it succeeded.
SubmitEnquiryTwice(raw) ==
    /\ Serving
    /\ EnquiryValid(raw)
    /\ Len(store["enquiry"]) + 1 < MaxEnquiries
    /\ LET one == CreateDocument(store, "enquiry", Enquiry(raw), ~db)
           two == CreateDocument(one.store, "enquiry", Enquiry(raw), ~db)
       IN  /\ store' = two.store
           /\ resp' = [NoResp("submit_enquiry") EXCEPT
                        !.status = IF two.ok THEN "200" ELSE "500",
                        !.payload = raw, !.id = two.id]
    /\ RequestStep

\* A variant that replaces the earlier enquiry of the same e-mail address.
SubmitEnquiryUpsert(raw) ==
    /\ Serving
    /\ EnquiryValid(raw)
    /\ db
    /\ LET kept == SelectSeq(store["enquiry"],
                             LAMBDA d : d.email # raw.email)
           st == [store EXCEPT !["enquiry"] = kept]
           out == CreateDocument(st, "enquiry", Enquiry(raw), FALSE)
       IN  /\ Len(kept) < MaxEnquiries
           /\ store' = out.store
           /\ resp' = [NoResp("submit_enquiry") EXCEPT
                        !.status = "200", !.payload = raw, !.id = out.id]
    /\ RequestStep

\* POST /api/enquiries: the body is validated as an Enquiry before the
\* handler runs (422 otherwise); the handler inserts it and returns its id.
SubmitEnquiry(raw) ==
    /\ Serving
    /\ IF ~EnquiryValid(raw)
       THEN /\ resp' = [NoResp("submit_enquiry") EXCEPT
                            !.status = "422", !.payload = raw]
            /\ store' = store
       ELSE /\ Len(store["enquiry"]) < MaxEnquiries
            /\ \E fault \in BOOLEAN :
                LET out == CreateDocument(store, "enquiry", Enquiry(raw), fault)
                IN  /\ store' = out.store
                    /\ resp' = IF out.ok
                               THEN [NoResp("submit_enquiry") EXCEPT
                                        !.status = "200", !.payload = raw,
                                        !.fault = fault, !.id = out.id]
                               ELSE [NoResp("submit_enquiry") EXCEPT
                                        !.status = "500", !.payload = raw,
                                        !.fault = fault]
    /\ RequestStep

\* GET /schema
SchemaInfo ==
    /\ Serving
    /\ resp' = [NoResp("schema_info") EXCEPT
                    !.status = "200",
                    !.collections = <<"course", "testimonial", "blogpost",
                                      "enquiry", "instituteinfo">>]
    /\ RequestStep
    /\ UNCHANGED store

\* ------------------------------------------------------- specification

Next ==
    \/ \E p \in Procs : SeedStart(p)
    \/ \E p \in Procs : SeedInsertCourse(p)
    \/ \E p \in Procs : SeedCountTestimonials(p)
    \/ \E p \in Procs : SeedInsertTestimonial(p)
    \/ \E p \in Procs : Stop(p)
    \/ \E p \in Procs : Restart(p)
    \/ Root
    \/ TestDatabase
    \/ ListCourses
    \/ \E slug \in Slugs : GetCourse(slug)
    \/ \E limit \in Limits : ListTestimonials(limit)
    \/ \E raw \in RawPayloads : SubmitEnquiry(raw)
    \/ SchemaInfo

Spec == Init /\ [][Next]_vars

\* The concurrent cold start: every replica is started against the empty
\* store, and only startup, stops and restarts happen.
ColdStartInit ==
    /\ db \in BOOLEAN
    /\ store = EmptyStore
    /\ pc = [p \in Procs |-> "start"]
    /\ idx = [p \in Procs |-> 0]
    /\ seeded = [p \in Procs |-> {}]
    /\ from = [p \in Procs |-> NoFrom]
    /\ alone = [p \in Procs |-> TRUE]
    /\ second = [p \in Procs |-> FALSE]
    /\ justSeeded = FALSE
    /\ resp = NoResp("init")

ColdStartNext ==
    \/ \E p \in Procs : SeedStart(p)
    \/ \E p \in Procs : SeedInsertCourse(p)
    \/ \E p \in Procs : SeedCountTestimonials(p)
    \/ \E p \in Procs : SeedInsertTestimonial(p)
    \/ \E p \in Procs : Stop(p)
    \/ \E p \in Procs : Restart(p)

ColdStartSpec == ColdStartInit /\ [][ColdStartNext]_vars

\* ------------------------------------------------------ seeding claims

\* The latest step was replica p's seed_if_empty returning normally.
SeedReturned(p) ==
    /\ resp.op = "seed_if_empty"
    /\ resp.proc = p
    /\ resp.status = "returned"

SampleSlugs == <<"ielts-coaching", "pte-preparation", "foreign-languages">>

SampleNames == <<"Aarav S.", "Meera T.">>

SlugsOf(docs) == [i \in 1..Len(docs) |-> docs[i].slug]

NamesOf(docs) == [i \in 1..Len(docs) |-> docs[i].name]

\* How many documents of the sequence satisfy the test.
CountWhere(docs, Test(_)) == Cardinality({i \in 1..Len(docs) : Test(docs[i])})

\* C1: with a store handle, a seed_if_empty run that starts right after a
\* completed run, is not interleaved with another replica's run and
\* returns, leaves the course and testimonial collections exactly as it
\* found them: it inserts nothing.
SeedIdempotent ==
    \A p \in Procs :
        (SeedReturned(p) /\ db /\ second[p] /\ alone[p]) =>
            /\ store["course"] = from[p].course
            /\ store["testimonial"] = from[p].testimonial
            /\ seeded[p] = {}

\* C1 witness: a second run in succession has returned on a seeded store.
SeedTwiceReached ==
    \E p \in Procs :
        /\ SeedReturned(p) /\ db /\ second[p] /\ alone[p]
        /\ SlugsOf(store["course"]) = SampleSlugs
        /\ NamesOf(store["testimonial"]) = SampleNames

\* C2: with a store handle, a seed_if_empty run that is not interleaved with
\* another replica's run and returns treats the two collections on their
\* own: one that was empty holds exactly the samples, in order, and one
\* that held a document is as it was; after a fully empty store
\* list_courses returns 3 items.
SeedPerCollection ==
    \A p \in Procs :
        (SeedReturned(p) /\ db /\ alone[p]) =>
            /\ IF from[p].course = <<>>
               THEN /\ SlugsOf(store["course"]) = SampleSlugs
                    /\ \A i \in 1..3 :
                        /\ WithoutId(store["course"][i]) = SampleCourses[i]
                        /\ store["course"][i]["_id"] = i
               ELSE store["course"] = from[p].course
            /\ IF from[p].testimonial = <<>>
               THEN /\ NamesOf(store["testimonial"]) = SampleNames
                    /\ \A i \in 1..2 :
                        WithoutId(store["testimonial"][i]) = SampleTestimonials[i]
               ELSE store["testimonial"] = from[p].testimonial
            /\ (from[p].course = <<>> /\ from[p].testimonial = <<>>) =>
                \A r \in ListCoursesResp(store) :
                    r.status = "200" /\ Len(r.docs) = 3
            /\ store["enquiry"] = <<>>

\* C2 witness: a run found courses (a partial set) but no testimonials, left
\* the former alone and seeded the latter.
SeedOneCollectionReached ==
    \E p \in Procs :
        /\ SeedReturned(p) /\ db /\ alone[p]
        /\ Len(from[p].course) = 1
        /\ from[p].testimonial = <<>>
        /\ Len(store["course"]) = 1
        /\ Len(store["testimonial"]) = 2

\* C3: when two replicas both saw the course collection empty and both
\* finished their startup, the collection holds 6 documents, every sample
\* slug twice; likewise 4 testimonials when both saw none.
RaceDuplicates ==
    \A p, q \in Procs :
        (p # q /\ pc[p] = "serving" /\ pc[q] = "serving") =>
            /\ ("course" \in seeded[p] \cap seeded[q]) =>
                /\ Len(store["course"]) = 6
                /\ \A i \in 1..3 :
                    CountWhere(store["course"],
                               LAMBDA d : d.slug = SampleSlugs[i]) = 2
            /\ ("testimonial" \in seeded[p] \cap seeded[q]) =>
                /\ Len(store["testimonial"]) = 4
                /\ \A i \in 1..2 :
                    CountWhere(store["testimonial"],
                               LAMBDA d : d.name = SampleNames[i]) = 2

\* C3 witness: both replicas seeded both collections, turn by turn.
RaceReached ==
    /\ \A p \in Procs :
        pc[p] = "serving" /\ seeded[p] = {"course", "testimonial"}
    /\ store = RacedStore
    /\ Len(store["course"]) = 6
    /\ Len(store["testimonial"]) = 4

\* C10 (as claimed): whenever no seed run is in progress, neither seeded
\* collection holds a part of its sample set, and a seed_if_empty that
\* returns leaves every sample present.
SeedAllOrNothing ==
    (\A p \in Procs : pc[p] \notin InSeed) =>
        /\ Len(store["course"]) \notin {1, 2}
        /\ Len(store["testimonial"]) # 1
        /\ \A p \in Procs :
            (SeedReturned(p) /\ db) =>
                /\ \A i \in 1..3 :
                    CountWhere(store["course"],
                               LAMBDA d : d.slug = SampleSlugs[i]) >= 1
                /\ \A i \in 1..2 :
                    CountWhere(store["testimonial"],
                               LAMBDA d : d.name = SampleNames[i]) >= 1

\* ------------------------------------------------------ request claims

\* The e-mail samples that are not addresses.
MalformedEmails == { <<"a", "b", "c">>, <<"a", "@", "b">> }

\* A body the Enquiry schema accepts: a name and a well-formed address.
Acceptable(raw) ==
    /\ "name" \in DOMAIN raw
    /\ "email" \in DOMAIN raw
    /\ raw.email \notin MalformedEmails

\* The documents of a collection whose identifier reads as the string.
LookupById(st, c, id) == SelectSeq(st[c], LAMBDA d : Str(d["_id"]) = id)

\* The latest submit_enquiry stored exactly one document, returned "ok" with
\* a non-empty id, and the lookup by that id gives back the payload.
StoredOne(before, after, r) ==
    /\ r.status = "200"
    /\ r.id # ""
    /\ Len(after["enquiry"]) = Len(before["enquiry"]) + 1
    /\ SubSeq(after["enquiry"], 1, Len(before["enquiry"])) = before["enquiry"]
    /\ after["course"] = before["course"]
    /\ after["testimonial"] = before["testimonial"]
    /\ LET hit == LookupById(after, "enquiry", r.id)
       IN  /\ Len(hit) = 1
           /\ WithoutId(hit[1]).name = r.payload.name
           /\ WithoutId(hit[1]).email = r.payload.email
           /\ WithoutId(hit[1]) =
                [name |-> r.payload.name, email |-> r.payload.email,
                 phone |-> None, course_interest |-> None, message |-> None]

\* C4 (as claimed): every submit_enquiry of a payload that passes validation
\* stores exactly one new enquiry and returns "ok" with its identifier.
SubmitAlwaysStores ==
    [][ (resp'.op = "submit_enquiry" /\ Acceptable(resp'.payload)) =>
            StoredOne(store, store', resp') ]_vars

\* C4 (amended): a payload that passes validation is stored as exactly one
\* new enquiry, with "ok" and a non-empty identifier under which the store
\* holds the payload, when the store handle exists and the insert does not
\* fail; without a handle, or when the insert fails, the request ends in a
\* 500 and nothing is stored.
SubmitStoresWhenAvailable ==
    [][ (resp'.op = "submit_enquiry" /\ Acceptable(resp'.payload)) =>
            IF db /\ ~resp'.fault
            THEN StoredOne(store, store', resp')
            ELSE resp'.status = "500" /\ resp'.id = "" /\ store' = store ]_vars

\* C4 witness: an enquiry was stored although the same payload was stored
\* before; both are kept.
SubmitRepeatedReached ==
    /\ resp.op = "submit_enquiry"
    /\ resp.status = "200"
    /\ Len(store["enquiry"]) = 2
    /\ WithoutId(store["enquiry"][1]) = WithoutId(store["enquiry"][2])
    /\ store["enquiry"][1]["_id"] # store["enquiry"][2]["_id"]

\* C5: a submit_enquiry whose e-mail is malformed, or whose name or e-mail
\* is missing, ends in a validation error (422) and leaves the store as it
\* was.
InvalidEnquiryRejected ==
    [][ (resp'.op = "submit_enquiry" /\ ~Acceptable(resp'.payload)) =>
            (resp'.status = "422" /\ resp'.id = "" /\ store' = store) ]_vars

\* C5 witness: a malformed address was refused on a store that holds an
\* enquiry.
InvalidEnquiryReached ==
    /\ resp.op = "submit_enquiry"
    /\ resp.status = "422"
    /\ "email" \in DOMAIN resp.payload
    /\ resp.payload.email = <<"a", "b", "c">>
    /\ Len(store["enquiry"]) = 1

\* C6: get_course fails with 500 without a store handle whatever the slug,
\* with 404 when no course has the slug, and otherwise returns one stored
\* course with that slug (the seeded "ielts-coaching" has its title,
\* duration and price); the store is unchanged in every case.
GetCourseContract ==
    [][ (resp'.op = "get_course") =>
            /\ store' = store
            /\ IF ~db THEN resp'.status = "500" /\ resp'.docs = <<>>
               ELSE IF \A i \in 1..Len(store["course"]) :
                            store["course"][i].slug # resp'.slug
               THEN resp'.status = "404" /\ resp'.docs = <<>>
               ELSE /\ resp'.status = "200"
                    /\ Len(resp'.docs) = 1
                    /\ resp'.docs[1].slug = resp'.slug
                    /\ \E i \in 1..Len(store["course"]) :
                        /\ WithoutId(store["course"][i]) = WithoutId(resp'.docs[1])
                        /\ Str(store["course"][i]["_id"]) = resp'.docs[1]["_id"]
                    /\ (resp'.slug = "ielts-coaching") =>
                        /\ resp'.docs[1].title = "IELTS Coaching"
                        /\ resp'.docs[1].duration_weeks = 8
                        /\ resp'.docs[1].price = 299 ]_vars

\* C6 witness: after seeding, "ielts-coaching" was fetched.
GetCourseReached ==
    /\ resp.op = "get_course"
    /\ resp.status = "200"
    /\ resp.slug = "ielts-coaching"
    /\ resp.docs[1].title = "IELTS Coaching"
    /\ Len(store["course"]) = 3

AppendOnly ==
    [][ /\ \A c \in Collections : IsPrefix(store[c], store'[c])
        /\ (store' # store) =>
                resp'.op \in {"seed_if_empty", "submit_enquiry"} ]_vars

\* C8 witness: a read ran on a store that holds seeded and submitted
\* documents.
AppendOnlyReached ==
    /\ resp.op \in {"list_courses", "get_course", "list_testimonials",
                    "test_database", "schema_info", "root"}
    /\ Len(store["course"]) = 3
    /\ Len(store["testimonial"]) = 2
    /\ Len(store["enquiry"]) = 2

\* C9: test_database always answers 200; without a store handle it reports
\* "Not Available" (the code's literal carries a cross mark before it) and no
\* collections, and a fault of list_collection_names is reported in
\* collections_error.
TestDatabaseNeverFails ==
    (resp.op = "test_database") =>
        /\ resp.status = "200"
        /\ ~db => /\ resp.database = "Not Available"
                  /\ resp.collections = <<>>
        /\ db => resp.database = "Connected"
        /\ resp.fault => /\ resp.collections_error # ""
                         /\ resp.collections = <<>>
        /\ (db /\ ~resp.fault) =>
                /\ resp.collections_error = ""
                /\ \A c \in Collections :
                    (store[c] # <<>>) <=>
                        (\E i \in 1..Len(resp.collections) :
                            resp.collections[i] = c)

\* C9 witness: the listing raised and the answer was still a 200.
TestDatabaseFaultReached ==
    /\ resp.op = "test_database"
    /\ db
    /\ resp.fault
    /\ resp.status = "200"
    /\ resp.collections_error # ""

====
